---------------------------- MODULE Spec2Model ----------------------------
(***************************************************************************)
(* A model of sanpy.bAnalysis (src/sanpy/bAnalysis.py): one recording, its *)
(* filtered arrays, the spike detection run (spikeDetect and the per-sweep *)
(* spikeDetect__), and the read accessors on the spike collection.         *)
(*                                                                         *)
(* Numbers.  Samples are integers.  The Savitzky-Golay filter of the       *)
(* default detection (5 points, order 2) has the kernel (-3,12,17,12,-3)/35*)
(* so the filtered amplitude is kept multiplied by 35 (VmScale) and the    *)
(* filtered derivative by 35*35 (DvScale); every comparison of the code is *)
(* made on the scaled integers, exactly.  A mean is kept as the pair       *)
(* <<sum, count>>.  None is <<>>, an integer v is <<v>>, NaN is <<0, 0>>.  *)
(* Sequences are 1-based; the code's 0-based index i is element i+1.       *)
(***************************************************************************)
EXTENDS Integers, Sequences, FiniteSets, TLC

None == <<>>
NaN == <<0, 0>>
Some(v) == <<v>>

(***************************************************************************)
(* Python and numpy primitives.                                            *)
(***************************************************************************)
At(s, i) == s[i + 1]

\* the sequence with its elements computed once
Tuple(f) == SubSeq(f, 1, Len(f))

\* a[i] of Python: a negative index counts from the end
PyWrap(i, n) == IF i < 0 THEN i + n ELSE i
InRange(i, n) == PyWrap(i, n) >= 0 /\ PyWrap(i, n) < n
PyAt(s, i) == s[PyWrap(i, Len(s)) + 1]

\* a[lo:hi] of Python: negative bounds count from the end, then both are clipped
SliceBound(i, n) ==
  IF i < 0 THEN (IF i + n < 0 THEN 0 ELSE i + n) ELSE (IF i > n THEN n ELSE i)
SliceLo(s, lo) == SliceBound(lo, Len(s))
SliceHi(s, lo, hi) ==
  IF SliceBound(hi, Len(s)) < SliceBound(lo, Len(s))
    THEN SliceBound(lo, Len(s)) ELSE SliceBound(hi, Len(s))
PySlice(s, lo, hi) == SubSeq(s, SliceLo(s, lo) + 1, SliceHi(s, lo, hi))

RECURSIVE SumSeq(_)
SumSeq(s) == IF s = <<>> THEN 0 ELSE Head(s) + SumSeq(Tail(s))

RECURSIVE SumSq(_)
SumSq(s) == IF s = <<>> THEN 0 ELSE Head(s) * Head(s) + SumSq(Tail(s))

MinOf(S) == CHOOSE x \in S : \A y \in S : x <= y

\* np.argmax / np.argmin of a non-empty sequence: the first extremum, 0-based
ArgMax(s) ==
  MinOf({i \in 0..(Len(s) - 1) : \A j \in 0..(Len(s) - 1) : At(s, j) <= At(s, i)})
ArgMin(s) ==
  MinOf({i \in 0..(Len(s) - 1) : \A j \in 0..(Len(s) - 1) : At(s, j) >= At(s, i)})

\* python's round() on a non-negative integer product, and int(), are the identity
\* on the integers the model uses; math.floor(x/2) is x \div 2
Floor2(x) == x \div 2

(***************************************************************************)
(* Presentation of the recording.                                          *)
(***************************************************************************)
VmScale == 35
DvScale == 1225

\* scipy.signal.savgol_filter(x, 5, 2, mode='nearest', axis=0) times 35
\* the kernel is (-3, 12, 17, 12, -3) / 35; mode 'nearest' repeats the edge samples
Clamp(i, n) == IF i < 1 THEN 1 ELSE IF i > n THEN n ELSE i
SavGol35(s) ==
  LET n == Len(s)
  IN  Tuple([i \in 1..n |->
        17 * s[i] + 12 * (s[Clamp(i - 1, n)] + s[Clamp(i + 1, n)])
                  - 3 * (s[Clamp(i - 2, n)] + s[Clamp(i + 2, n)])])

\* scipy.signal.medfilt (and medfilt2d with a [m, 1] kernel): zero padded
Padded(s, i) == IF i < 0 \/ i > Len(s) - 1 THEN 0 ELSE At(s, i)
MedianOf(w) ==
  LET h == Len(w) \div 2
  IN  CHOOSE v \in {w[j] : j \in 1..Len(w)} :
        /\ Cardinality({j \in 1..Len(w) : w[j] < v}) <= h
        /\ Cardinality({j \in 1..Len(w) : w[j] <= v}) >= h + 1
MedFilt(s, m) ==
  Tuple([i \in 1..Len(s) |->
     MedianOf(Tuple([k \in 1..m |-> Padded(s, i - 1 + k - 1 - (m \div 2))]))])

Diff(s) == Tuple([i \in 1..(Len(s) - 1) |-> s[i + 1] - s[i]])
Scaled(s, c) == Tuple([i \in 1..Len(s) |-> c * s[i]])


(***************************************************************************)
(* Detection configuration.  dvdt_percentOfMax is the fraction             *)
(* pctNum / pctDen.  missing is the set of keys the dictionary lacks.      *)
(***************************************************************************)
getDefaultDetection ==
  [dvdtThreshold |-> Some(100), mvThreshold |-> -20, medianFilter |-> 0,
   SavitzkyGolay_pnts |-> 5, SavitzkyGolay_poly |-> 2,
   halfHeights |-> <<10, 20, 50, 80, 90>>,
   mdp_ms |-> 250, refractory_ms |-> 170, peakWindow_ms |-> 100,
   dvdtPreWindow_ms |-> 10, avgWindow_ms |-> 5, pctNum |-> 1, pctDen |-> 10,
   halfWidthWindow_ms |-> 200, doBackupSpikeVm |-> TRUE,
   spikeClipWidth_ms |-> 500, onlyPeaksAbove_mV |-> Some(-20),
   missing |-> {}]

(***************************************************************************)
(* _getDerivative: the filtered amplitude (times VmScale) and the filtered *)
(* derivative (times DvScale) of one sweep column.                         *)
(***************************************************************************)
OddWidth(m) == IF m % 2 = 0 THEN m + 1 ELSE m

Filter35(s, dDict) ==
  IF dDict.medianFilter > 0 THEN Scaled(MedFilt(s, OddWidth(dDict.medianFilter)), 35)
  ELSE IF dDict.SavitzkyGolay_pnts > 0 THEN SavGol35(s)
  ELSE Scaled(s, 35)

getFilteredVm(y, dDict) == Filter35(y, dDict)

\* lines 697-725, from the filtered amplitude of the column
getDerivative(vm, dDict, ppm) ==
  <<0>> \o Scaled(Filter35(Diff(vm), dDict), ppm)

(***************************************************************************)
(* Threshold crossings (lines 917-921 and 1052-1056).                      *)
(***************************************************************************)
Idx(n) == Tuple([i \in 1..n |-> i - 1])

ThresholdCrossings(sig, thr) ==
  LET above == SelectSeq(Idx(Len(sig)), LAMBDA t : At(sig, t) > thr)
      Is == <<0>> \o above
      keep == SelectSeq(Idx(Len(Is) - 1), LAMBDA k : At(Is, k) - At(Is, k + 1) + 1 # 0)
  IN  Tuple([j \in 1..Len(keep) |-> At(Is, keep[j] + 1)])

(***************************************************************************)
(* _throwOutRefractory                                                     *)
(***************************************************************************)
RECURSIVE RefractoryMark(_, _, _, _)
RefractoryMark(s, i, lastGood, minPnts) ==
  IF i >= Len(s) THEN s
  ELSE IF i = 0 THEN RefractoryMark(s, 1, lastGood, minPnts)
  ELSE IF At(s, i) - At(s, lastGood) < minPnts
         THEN RefractoryMark([s EXCEPT ![i + 1] = 0], i + 1, lastGood, minPnts)
         ELSE RefractoryMark(s, i + 1, i, minPnts)

KeepFlags(marked) == Tuple([k \in 1..Len(marked) |-> marked[k] # 0])

RECURSIVE Compress(_, _)
Compress(s, flags) ==
  IF s = <<>> THEN <<>>
  ELSE (IF Head(flags) THEN <<Head(s)>> ELSE <<>>) \o Compress(Tail(s), Tail(flags))

throwOutRefractory(spikeTimes0, goodSpikeErrors, refractory_ms, ppm) ==
  LET marked == RefractoryMark(spikeTimes0, 0, 0, ppm * refractory_ms)
  IN  [times |-> Compress(marked, KeepFlags(marked)),
       errors |-> IF goodSpikeErrors = None THEN None
                  ELSE Compress(goodSpikeErrors, KeepFlags(marked))]

\* _getErrorDict: the spike index, the point (Seconds is pnt / dataPointsPerMs / 1000)
getErrorDict(spikeNumber, pnt, type) ==
  [Spike |-> spikeNumber, Pnt |-> pnt, Type |-> type]

(***************************************************************************)
(* _spikeDetect_dvdt.  The result is [times, errors, exc]: exc names the   *)
(* exception that leaves the function, "" when it returns.                 *)
(***************************************************************************)
Reverse(s) == Tuple([k \in 1..Len(s) |-> s[Len(s) + 1 - k]])

\* lines 930-939: keep the crossings whose raw peak exceeds mvThreshold
PeakGateFails(y, times, peakWindow_pnts) ==
  \E k \in 1..Len(times) : PySlice(y, times[k], times[k] + peakWindow_pnts) = <<>>

PeakGate(y, times, peakWindow_pnts, mvThreshold) ==
  SelectSeq(times,
    LAMBDA t : LET clip == PySlice(y, t, t + peakWindow_pnts)
               IN  At(clip, ArgMax(clip)) > mvThreshold)

\* lines 970-1020, one crossing: [time, errs] where errs is what the iteration
\* appends to spikeErrorList1 (one entry, or nothing on the except path)
RefineOnset(deriv, i, spikeTime, window_pnts, dDict) ==
  LET preDerivClip == PySlice(deriv, spikeTime - window_pnts, spikeTime)
      postDerivClip == PySlice(deriv, spikeTime, spikeTime + window_pnts)
  IN  IF postDerivClip = <<>>
        THEN [time |-> spikeTime, errs |-> <<>>]          \* ValueError, caught
        ELSE
          LET peakPnt == ArgMax(postDerivClip) + spikeTime
              peakVal == At(deriv, peakPnt)
              flipped == Reverse(preDerivClip)
              tmpWhere == SelectSeq(Idx(Len(flipped)),
                            LAMBDA k : At(flipped, k) * dDict.pctDen < peakVal * dDict.pctNum)
          IN  IF Len(tmpWhere) > 0
                THEN [time |-> spikeTime - tmpWhere[1] - 1, errs |-> <<None>>]
                ELSE [time |-> spikeTime,
                      errs |-> <<Some(getErrorDict(i, spikeTime, "dvdtPercent"))>>]

RECURSIVE Flatten(_)
Flatten(ss) == IF ss = <<>> THEN <<>> ELSE Head(ss) \o Flatten(Tail(ss))

spikeDetect_dvdt(y, deriv, dDict, ppm) ==
  LET spikeTimesA == ThresholdCrossings(deriv, DvScale * dDict.dvdtThreshold[1])
      peakWindow_pnts == ppm * dDict.peakWindow_ms
  IN  IF PeakGateFails(y, spikeTimesA, peakWindow_pnts)
        THEN [times |-> <<>>, errors |-> <<>>, exc |-> "ValueError"]
        ELSE
          LET spikeTimes0 == throwOutRefractory(
                               PeakGate(y, spikeTimesA, peakWindow_pnts, dDict.mvThreshold),
                               None, dDict.refractory_ms, ppm).times
              window_pnts == dDict.dvdtPreWindow_ms * ppm
              refined == Tuple([k \in 1..Len(spikeTimes0) |->
                            RefineOnset(deriv, k - 1, spikeTimes0[k], window_pnts, dDict)])
          IN  [times |-> Tuple([k \in 1..Len(refined) |-> refined[k].time]),
               errors |-> Flatten(Tuple([k \in 1..Len(refined) |-> refined[k].errs])),
               exc |-> ""]

(***************************************************************************)
(* _spikeDetect_vm                                                         *)
(***************************************************************************)
minISI_ms == 75
prePntUp == 10

\* ms2Pnt_
ms2Pnt(ms, ppm) == ms * ppm

\* postAvg > preAvg; the average of an empty clip is nan and compares False
IsUpward(y, spikeTime) ==
  LET pre == PySlice(y, spikeTime - prePntUp, spikeTime)
      post == PySlice(y, spikeTime + 1, spikeTime + prePntUp + 1)
  IN  /\ pre # <<>>
      /\ post # <<>>
      /\ SumSeq(post) * Len(pre) > SumSeq(pre) * Len(post)

\* lines 1089-1102; last is the last good spike as <<pnt>>, None at first
RECURSIVE UpwardGate(_, _, _, _)
UpwardGate(y, times, last, minISI_pnts) ==
  IF times = <<>> THEN <<>>
  ELSE IF IsUpward(y, Head(times))
         THEN IF last # None /\ Head(times) - last[1] < minISI_pnts
                THEN UpwardGate(y, Tail(times), last, minISI_pnts)
                ELSE <<Head(times)>> \o UpwardGate(y, Tail(times), Some(Head(times)), minISI_pnts)
         ELSE UpwardGate(y, Tail(times), last, minISI_pnts)

spikeDetect_vm(y, vm, dDict, ppm) ==
  LET spikeTimes0 == ThresholdCrossings(vm, VmScale * dDict.mvThreshold)
      goodSpikeTimes == UpwardGate(y, spikeTimes0, None, ms2Pnt(minISI_ms, ppm))
      goodSpikeErrors == Tuple([k \in 1..Len(goodSpikeTimes) |-> None])
      r == throwOutRefractory(goodSpikeTimes, goodSpikeErrors, dDict.refractory_ms, ppm)
  IN  [times |-> r.times, errors |-> r.errors, exc |-> ""]

(***************************************************************************)
(* _backupSpikeVm.  A window mean is <<sum, count>>, nan when count = 0.   *)
(***************************************************************************)
maxNumPntsToBackup == 20
bin_ms == 1
moveForwardPnts == 4
backupMedianFilter == 5
\* sdMult = 0.7 as sdMultNum / sdMultDen
sdMultNum == 7
sdMultDen == 10

MeanOf(w) == <<SumSeq(w), Len(w)>>

\* meanDiff < nextSD * sdMult, with meanDiff = thisMean - nextMean; False on nan
StopBackup(thisMean, nextWin) ==
  LET n == Len(nextWin)
      a == thisMean[1] * n - SumSeq(nextWin) * thisMean[2]   \* meanDiff = a / b
      b == thisMean[2] * n
      v == n * SumSq(nextWin) - SumSeq(nextWin) * SumSeq(nextWin)  \* nextSD = sqrt(v) / n
  IN  /\ thisMean[2] > 0
      /\ n > 0
      /\ \/ a < 0
         \/ sdMultDen * sdMultDen * a * a * n * n < sdMultNum * sdMultNum * v * b * b

BackupDoneLate(thisMean, nextWin, backupNumPnts) ==
  StopBackup(thisMean, nextWin) \/ backupNumPnts = maxNumPntsToBackup + 10

\* line 808: the condition that ends the while loop
BackupDone(thisMean, nextWin, backupNumPnts) ==
  StopBackup(thisMean, nextWin) \/ backupNumPnts = maxNumPntsToBackup

\* the while loop for one spike: the refined point
RECURSIVE BackupLoop(_, _, _, _, _, _)
BackupLoop(myVm, spikeTimePnts, atBinPnt, thisMean, backupNumPnts, ppm) ==
  LET bin_pnts == bin_ms * ppm
      half_bin_pnts == Floor2(bin_pnts)
      nextStart == atBinPnt - 1 - bin_pnts - half_bin_pnts
      nextStop == atBinPnt - 1 - bin_pnts + half_bin_pnts
      nextWin == PySlice(myVm, nextStart, nextStop)
  IN  IF BackupDone(thisMean, nextWin, backupNumPnts)
        THEN IF backupNumPnts - 1 < moveForwardPnts
               THEN spikeTimePnts - (backupNumPnts - 1) * bin_pnts
               ELSE spikeTimePnts - (backupNumPnts - 1 - moveForwardPnts) * bin_pnts
        ELSE BackupLoop(myVm, spikeTimePnts, atBinPnt - bin_pnts, MeanOf(nextWin),
                        backupNumPnts + 1, ppm)

\* the number of passes through the while loop for one spike (one comparison
\* of thisMean against nextMean per pass)
RECURSIVE BackupComparisons(_, _, _, _, _)
BackupComparisons(myVm, atBinPnt, thisMean, backupNumPnts, ppm) ==
  LET bin_pnts == bin_ms * ppm
      half_bin_pnts == Floor2(bin_pnts)
      nextWin == PySlice(myVm, atBinPnt - 1 - bin_pnts - half_bin_pnts,
                         atBinPnt - 1 - bin_pnts + half_bin_pnts)
  IN  IF BackupDone(thisMean, nextWin, backupNumPnts)
        THEN 1
        ELSE 1 + BackupComparisons(myVm, atBinPnt - bin_pnts, MeanOf(nextWin),
                                   backupNumPnts + 1, ppm)

backupSpikeVm(y, spikeTimes0, ppm) ==
  LET myVm == MedFilt(y, backupMedianFilter)
      half_bin_pnts == Floor2(bin_ms * ppm)
  IN  Tuple([k \in 1..Len(spikeTimes0) |->
         BackupLoop(myVm, spikeTimes0[k], spikeTimes0[k],
                    MeanOf(PySlice(myVm, spikeTimes0[k] - half_bin_pnts,
                                   spikeTimes0[k] + half_bin_pnts)),
                    0, ppm)])

(***************************************************************************)
(* spikeDetect__, lines 1186-1202: the onlyPeaksAbove_mV gate.             *)
(* np.argmax of an empty clip raises ValueError; spikeErrorList[i] raises  *)
(* IndexError when the error list is shorter than the onset list.          *)
(***************************************************************************)
RECURSIVE PeaksAboveGate(_, _, _, _, _, _)
PeaksAboveGate(vm, times, errors, i, peakWindow_pnts, floor35) ==
  IF i >= Len(times) THEN [times |-> <<>>, errors |-> <<>>, exc |-> ""]
  ELSE
    LET spikeTime == At(times, i)
        clip == PySlice(vm, spikeTime, spikeTime + peakWindow_pnts)
    IN  IF clip = <<>> THEN [times |-> <<>>, errors |-> <<>>, exc |-> "ValueError"]
        ELSE IF At(clip, ArgMax(clip)) > floor35
          THEN IF i >= Len(errors)
                 THEN [times |-> <<>>, errors |-> <<>>, exc |-> "IndexError"]
                 ELSE LET rest == PeaksAboveGate(vm, times, errors, i + 1,
                                                 peakWindow_pnts, floor35)
                      IN  [times |-> <<spikeTime>> \o rest.times,
                           errors |-> <<At(errors, i)>> \o rest.errors,
                           exc |-> rest.exc]
          ELSE PeaksAboveGate(vm, times, errors, i + 1, peakWindow_pnts, floor35)

\* lines 1157-1202 for one sweep: the onsets handed to the feature loop
SweepOnsets(y, vm, deriv, dDict, ppm) ==
  LET det == IF dDict.dvdtThreshold = None
               THEN LET r == spikeDetect_vm(y, vm, dDict, ppm)
                    IN  IF dDict.doBackupSpikeVm
                          THEN [r EXCEPT !.times = backupSpikeVm(y, r.times, ppm)]
                          ELSE r
               ELSE spikeDetect_dvdt(y, deriv, dDict, ppm)
  IN  IF det.exc # "" \/ dDict.onlyPeaksAbove_mV = None THEN det
      ELSE PeaksAboveGate(vm, det.times, det.errors, 0, ppm * dDict.peakWindow_ms,
                          VmScale * dDict.onlyPeaksAbove_mV[1])

DetectionTypeOf(dDict) == IF dDict.dvdtThreshold = None THEN "mv" ELSE "dvdt"

(***************************************************************************)
(* spikeDetect__, lines 1209-1676: the record of spike i of the sweep.     *)
(***************************************************************************)
postSpike_ms == 10

\* lines 1212-1258 and 1268-1318: the record as appended, other fields at default
BaseRecord(vm, deriv, dDict, ppm, sweep, i, numSpikes, spikeTime, tmpError) ==
  LET clip == PySlice(vm, spikeTime, spikeTime + ppm * dDict.peakWindow_ms)
      peakPnt == ArgMax(clip) + spikeTime
      peakVal == At(clip, ArgMax(clip))
  IN  [include |-> 1,
       detectionType |-> DetectionTypeOf(dDict),
       sweep |-> sweep,
       sweepSpikeNumber |-> i,
       spikeNumber |-> numSpikes,
       errors |-> IF tmpError # None THEN <<tmpError[1]>> ELSE <<>>,
       halfHeights |-> dDict.halfHeights,
       thresholdPnt |-> spikeTime,
       thresholdVal |-> PyAt(vm, spikeTime),
       thresholdVal_dvdt |-> PyAt(deriv, spikeTime),
       peakPnt |-> peakPnt,
       peakVal |-> peakVal,
       peakHeight |-> peakVal - PyAt(vm, spikeTime),
       preMinPnt |-> None,
       preMinVal |-> NaN,
       preLinearFitPnt0 |-> None,
       preLinearFitPnt1 |-> None,
       preSpike_dvdt_max_pnt |-> None,
       postSpike_dvdt_min_pnt |-> None,
       isi_pnts |-> NaN,
       isi_ms |-> NaN,
       spikeFreq_hz |-> NaN,
       cycleLength_pnts |-> NaN,
       cycleLength_ms |-> NaN,
       diastolicDuration_ms |-> NaN,
       widths |-> Tuple([j \in 1..Len(dDict.halfHeights) |->
                     [halfHeight |-> dDict.halfHeights[j], risingPnt |-> None,
                      fallingPnt |-> None, widthPnts |-> None, widthMs |-> NaN]]),
       widthsMs |-> Tuple([j \in 1..Len(dDict.halfHeights) |-> NaN])]

\* what raises before the record is appended (lines 1212, 1235, 1247)
PreAppendExc(vm, dDict, ppm, i, spikeTime, errors) ==
  IF PySlice(vm, spikeTime, spikeTime + ppm * dDict.peakWindow_ms) = <<>> THEN "ValueError"
  ELSE IF i >= Len(errors) THEN "IndexError"
  ELSE IF ~InRange(spikeTime, Len(vm)) THEN "IndexError"
  ELSE ""

\* lines 1330-1366: the diastolic minimum of spike i > 0.
\* [exc, local, found, val]: local is the variable preMinPnt after the block
PreMin(vm, dDict, ppm, spikeTime) ==
  LET mdp_pnts == dDict.mdp_ms * ppm
      startPnt == IF spikeTime - mdp_pnts < 0 THEN 0 ELSE spikeTime - mdp_pnts
      preRange == PySlice(vm, startPnt, spikeTime)
  IN  IF preRange = <<>> THEN [exc |-> "ValueError", local |-> 0, found |-> FALSE, val |-> NaN]
      ELSE
        LET avgWindow_pnts == Floor2(dDict.avgWindow_ms * ppm)
            preMinPnt == ArgMin(preRange) + startPnt
            preMinVal == MeanOf(PySlice(vm, preMinPnt - avgWindow_pnts,
                                        preMinPnt + avgWindow_pnts))
            back == Reverse(PySlice(vm, preMinPnt, spikeTime))
            where == SelectSeq(Idx(Len(back)),
                        LAMBDA k : preMinVal[2] > 0
                                   /\ At(back, k) * preMinVal[2] < preMinVal[1])
        IN  IF Len(where) > 0
              THEN [exc |-> "", local |-> spikeTime - where[1], found |-> TRUE,
                    val |-> preMinVal]
              ELSE [exc |-> "", local |-> preMinPnt, found |-> FALSE, val |-> preMinVal]

\* math.floor(n * 0.1) and math.floor(n * 0.5)
FloorTenth(n) == n \div 10
FloorHalf(n) == n \div 2

\* lines 1369-1409: the linear fit; the error type of np.polyfit on the interval
FitError(p0, p1, n) ==
  LET len == IF SliceBound(p1, n) > SliceBound(p0, n)
               THEN SliceBound(p1, n) - SliceBound(p0, n) ELSE 0
  IN  IF len = 0 THEN "fitEDD" ELSE IF len = 1 THEN "fitEDD2" ELSE ""

WithPreMin(rec, pm, i, spikeTime, n) ==
  LET r1 == IF pm.found
              THEN [rec EXCEPT !.preMinPnt = Some(pm.local), !.preMinVal = pm.val]
              ELSE [rec EXCEPT !.errors = @ \o <<getErrorDict(i, spikeTime, "preMin")>>]
      timeInterval_pnts == spikeTime - pm.local
      p0 == pm.local + FloorTenth(timeInterval_pnts)
      p1 == pm.local + FloorHalf(timeInterval_pnts)
      fe == FitError(p0, p1, n)
  IN  [r1 EXCEPT !.preLinearFitPnt0 = Some(p0), !.preLinearFitPnt1 = Some(p1),
                 !.errors = IF fe = "" THEN @ ELSE @ \o <<getErrorDict(i, spikeTime, fe)>>]

\* lines 1419-1435
WithPreSpikeDvdt(rec, deriv, i, spikeTime) ==
  LET preRange == PySlice(deriv, spikeTime, rec.peakPnt + 1)
  IN  IF preRange = <<>>
        THEN [rec EXCEPT !.errors = @ \o <<getErrorDict(i, spikeTime, "preSpikeDvDt")>>]
        ELSE [rec EXCEPT !.preSpike_dvdt_max_pnt = Some(ArgMax(preRange) + spikeTime)]

\* lines 1472-1483
PostRange(rec, deriv, ppm) ==
  PySlice(deriv, rec.peakPnt, rec.peakPnt + ppm * postSpike_ms)

WithPostSpikeDvdt(rec, deriv, ppm) ==
  [rec EXCEPT !.postSpike_dvdt_min_pnt = Some(ArgMin(PostRange(rec, deriv, ppm)) + rec.peakPnt)]

\* intervals whose cycle length is taken between the onsets, whatever the minima
WithIntervalsFromOnsets(rec, prev, pmLocal, ppm, i, spikeTime) ==
  LET isiPnts == rec.thresholdPnt - prev.thresholdPnt
  IN  [rec EXCEPT !.diastolicDuration_ms = <<spikeTime - pmLocal, ppm>>,
                  !.isi_pnts = Some(isiPnts),
                  !.isi_ms = <<isiPnts, ppm>>,
                  !.spikeFreq_hz = <<1000 * ppm, isiPnts>>,
                  !.cycleLength_pnts = Some(isiPnts),
                  !.cycleLength_ms = <<isiPnts, ppm>>]

\* lines 1513-1538; prev is the record before this one in the collection
WithIntervals(rec, prev, pmLocal, ppm, i, spikeTime) ==
  LET isiPnts == rec.thresholdPnt - prev.thresholdPnt
      r1 == [rec EXCEPT !.diastolicDuration_ms = <<spikeTime - pmLocal, ppm>>,
                        !.isi_pnts = Some(isiPnts),
                        !.isi_ms = <<isiPnts, ppm>>,
                        !.spikeFreq_hz = <<1000 * ppm, isiPnts>>]
  IN  IF prev.preMinPnt # None /\ rec.preMinPnt # None
        THEN [r1 EXCEPT !.cycleLength_pnts = Some(rec.preMinPnt[1] - prev.preMinPnt[1]),
                        !.cycleLength_ms = <<rec.preMinPnt[1] - prev.preMinPnt[1], ppm>>]
        ELSE [r1 EXCEPT !.errors = @ \o <<getErrorDict(i, spikeTime, "cycleLength")>>]

\* lines 1577-1676, one half height: [width, ms, err]
HalfWidth(rec, vm, dDict, ppm, halfHeight) ==
  LET peakPnt == rec.peakPnt
      hwWindowPnts == dDict.halfWidthWindow_ms * ppm
      \* thisVm = thresholdVal + (peakVal - thresholdVal) * halfHeight * 0.01, times 100
      thisVm100 == 100 * rec.thresholdVal + (rec.peakVal - rec.thresholdVal) * halfHeight
      postRange == PySlice(vm, peakPnt, peakPnt + hwWindowPnts)
      falling == SelectSeq(Idx(Len(postRange)), LAMBDA k : 100 * At(postRange, k) < thisVm100)
      dflt == [halfHeight |-> halfHeight, risingPnt |-> None, fallingPnt |-> None,
               widthPnts |-> None, widthMs |-> NaN]
  IN  IF Len(falling) = 0 THEN [width |-> dflt, ms |-> NaN, err |-> TRUE]
      ELSE
        LET fallingPnt == falling[1] + peakPnt
            fallingVal == PyAt(vm, fallingPnt)
            preRange == PySlice(vm, rec.thresholdPnt, peakPnt)
            rising == SelectSeq(Idx(Len(preRange)), LAMBDA k : At(preRange, k) > fallingVal)
        IN  IF Len(rising) = 0 THEN [width |-> dflt, ms |-> NaN, err |-> TRUE]
            ELSE
              LET risingPnt == rising[1] + rec.thresholdPnt
                  widthPnts == fallingPnt - risingPnt
                  widthPnts2 == fallingPnt - rec.thresholdPnt
              IN  [width |-> [halfHeight |-> halfHeight,
                              risingPnt |-> Some(rec.thresholdPnt),
                              fallingPnt |-> Some(fallingPnt),
                              widthPnts |-> Some(widthPnts2),
                              widthMs |-> <<widthPnts, ppm>>],
                   ms |-> <<widthPnts, ppm>>,
                   err |-> FALSE]

WithWidths(rec, vm, dDict, ppm) ==
  LET hw == Tuple([j \in 1..Len(dDict.halfHeights) |->
               HalfWidth(rec, vm, dDict, ppm, dDict.halfHeights[j])])
  IN  [rec EXCEPT !.widths = Tuple([j \in 1..Len(hw) |-> hw[j].width]),
                  !.widthsMs = Tuple([j \in 1..Len(hw) |-> hw[j].ms])]

\* the 'spikeWidth' annotations of the record, in the order of the half heights
WidthErrors(rec, vm, dDict, ppm, i, spikeTime) ==
  LET bad == SelectSeq(dDict.halfHeights,
                       LAMBDA h : HalfWidth(rec, vm, dDict, ppm, h).err)
  IN  Tuple([j \in 1..Len(bad) |-> getErrorDict(i, spikeTime, "spikeWidth")])

\* the index of the record that line 1668 appends the width annotations to
WidthErrorOwner(i, iIdx) == i

\* a test for the first spike of the recording instead of the sweep
IsFirstOfRecording(i, iIdx) == iIdx = 0

\* lines 1326 and 1513-1518: the spike is the first of its sweep
IsFirstOfSweep(i, iIdx) == i = 0

\* lines 1263-1676 after the record is appended at position iIdx (0-based):
\* [rec, exc, werrs]
SpikeFeatures(base, prev, vm, deriv, dDict, ppm, i, iIdx, spikeTime) ==
  LET pm == IF IsFirstOfSweep(i, iIdx)
              THEN [exc |-> "", local |-> 0, found |-> FALSE, val |-> NaN]
              ELSE PreMin(vm, dDict, ppm, spikeTime)
      r1 == IF IsFirstOfSweep(i, iIdx) THEN base
            ELSE WithPreMin(base, pm, i, spikeTime, Len(vm))
      r2 == WithPreSpikeDvdt(r1, deriv, i, spikeTime)
  IN  IF pm.exc # "" THEN [rec |-> base, exc |-> pm.exc, werrs |-> <<>>]
      ELSE IF PostRange(r2, deriv, ppm) = <<>>
        THEN [rec |-> r2, exc |-> "ValueError", werrs |-> <<>>]
      ELSE
        LET r3 == WithPostSpikeDvdt(r2, deriv, ppm)
            r4 == IF IsFirstOfSweep(i, iIdx) THEN r3
                  ELSE WithIntervals(r3, prev, pm.local, ppm, i, spikeTime)
        IN  IF ~IsFirstOfSweep(i, iIdx) /\ r3.thresholdPnt = prev.thresholdPnt
              \* line 1521: 1 / (isi_ms / 1000) with isi_ms = 0
              THEN [rec |-> [r3 EXCEPT !.diastolicDuration_ms = <<spikeTime - pm.local, ppm>>],
                    exc |-> "ZeroDivisionError", werrs |-> <<>>]
              ELSE [rec |-> WithWidths(r4, vm, dDict, ppm), exc |-> "",
                    werrs |-> WidthErrors(r4, vm, dDict, ppm, i, spikeTime)]

(***************************************************************************)
(* errorReport and getStat                                                 *)
(***************************************************************************)
\* lines 1893-1908: the rows of the table; an annotation is never None or nan
errorReport(sd) == Flatten(Tuple([k \in 1..Len(sd) |-> sd[k].errors]))

\* errorReport(): [rows, exc]; line 1911 reads detectionDict['verbose'], which
\* raises TypeError while no configuration is retained
errorReportCall(sd, dd) ==
  IF dd = None THEN [rows |-> <<>>, exc |-> "TypeError"]
  ELSE [rows |-> errorReport(sd), exc |-> ""]

\* the fields that hold None or a wrapped value; the others hold plain values
NullableStats ==
  {"preMinPnt", "preLinearFitPnt0", "preLinearFitPnt1", "preSpike_dvdt_max_pnt",
   "postSpike_dvdt_min_pnt"}

\* clean(): None becomes nan
clean(statName, val) ==
  IF statName \in NullableStats THEN (IF val = None THEN NaN ELSE val) ELSE val

\* the sweepNumber argument: None, 'All' or a sweep number
SweepNone == [kind |-> "None", n |-> 0]
SweepAll == [kind |-> "All", n |-> 0]
SweepN(n) == [kind |-> "N", n |-> n]

\* the sweep test of lines 579 and 585; a sweepNumber of None is not replaced
\* by 'All' (line 573 compares, it does not assign)
SweepSelected(spike, sweepNumber) ==
  \/ sweepNumber.kind = "All"
  \/ sweepNumber.kind = "N" /\ spike.sweep = sweepNumber.n

StatColumn(sd, statName, sweepNumber) ==
  LET sel == SelectSeq(sd, LAMBDA spike : SweepSelected(spike, sweepNumber))
  IN  Tuple([k \in 1..Len(sel) |-> clean(statName, sel[k][statName])])

\* getStat: [x, y, error, exc]; statName2 is None or <<name>>.  error is the local
\* flag of lines 560-570; exc is the exception that leaves the function: no path
\* of lines 558-590 raises
getStat(sd, statName1, statName2, sweepNumber) ==
  LET error == \/ Len(sd) = 0
               \/ statName1 \notin DOMAIN sd[1]
               \/ (statName2 # None /\ statName2[1] \notin DOMAIN sd[1])
  IN  [x |-> IF error THEN <<>> ELSE StatColumn(sd, statName1, sweepNumber),
       y |-> IF error \/ statName2 = None THEN <<>>
             ELSE StatColumn(sd, statName2[1], sweepNumber),
       error |-> error,
       exc |-> ""]

(***************************************************************************)
(* _makeSpikeClips                                                         *)
(***************************************************************************)
\* lines 1782-1789: the clip width in points made even, and its half
halfClipWidth(spikeClipWidth_ms, ppm) ==
  LET clipWidth_pnts == spikeClipWidth_ms * ppm
  IN  (IF clipWidth_pnts % 2 = 0 THEN clipWidth_pnts ELSE clipWidth_pnts + 1) \div 2

\* line 1793: the relative time axis; entry x is (x - half) / dataPointsPerMs ms,
\* held as <<x - half, dataPointsPerMs>>
clipAxis(half, ppm) == Tuple([x \in 1..(2 * half) |-> <<x - 1 - half, ppm>>])

\* a clip that is kept whatever its length
KeepAnyClip(currentClip, numPointsInClip) == TRUE

\* line 1819: the clip is kept
KeepClip(currentClip, numPointsInClip) == Len(currentClip) = numPointsInClip

\* lines 1808-1824: the clips of the onsets from index idx on
RECURSIVE ClipsFrom(_, _, _, _, _, _)
ClipsFrom(y, theseTime_pnts, sweepNum, sweepNumber, half, idx) ==
  IF idx >= Len(theseTime_pnts) THEN <<>>
  ELSE
    LET spikeTime == At(theseTime_pnts, idx)
        column == IF sweepNumber.kind = "N" THEN y[sweepNumber.n + 1]
                  ELSE y[At(sweepNum, idx) + 1]
        currentClip == PySlice(column, spikeTime - half, spikeTime + half)
    IN  (IF KeepClip(currentClip, 2 * half) THEN <<currentClip>> ELSE <<>>)
          \o ClipsFrom(y, theseTime_pnts, sweepNum, sweepNumber, half, idx + 1)

\* _makeSpikeClips(spikeClipWidth_ms, None, sweepNumber): [x, clips, exc].
\* spikeClipWidth_ms is None or <<ms>>; dd is the retained configuration
makeSpikeClips(sd, y, dd, ppm, spikeClipWidth_ms, sweepNumber0) ==
  IF spikeClipWidth_ms = None /\ dd = None
    THEN [x |-> <<>>, clips |-> <<>>, exc |-> "TypeError"]      \* line 1768
  ELSE
    LET width == IF spikeClipWidth_ms = None THEN dd[1].spikeClipWidth_ms
                 ELSE spikeClipWidth_ms[1]
        sweepNumber == IF sweepNumber0.kind = "None" THEN SweepAll ELSE sweepNumber0
        theseTime_pnts == getStat(sd, "thresholdPnt", None, sweepNumber).x
        sweepNum == getStat(sd, "sweep", None, sweepNumber).x
        half == halfClipWidth(width, ppm)
    IN  IF sweepNumber.kind = "N" /\ ~InRange(sweepNumber.n, Len(y))
          THEN [x |-> clipAxis(half, ppm), clips |-> <<>>, exc |-> "IndexError"] \* line 1802
          ELSE [x |-> clipAxis(half, ppm),
                clips |-> ClipsFrom(y, theseTime_pnts, sweepNum, sweepNumber, half, 0),
                exc |-> ""]

(***************************************************************************)
(* getSpikeClips.  A time is held in ms as <<numerator, denominator>>;     *)
(* theMin and theMax are None or <<ms>>.                                   *)
(***************************************************************************)
\* pnt2Sec_(pnt) >= theMin and pnt2Sec_(pnt) <= theMax, line 1869
InTimeWindow(pnt, ppm, lo, hi) ==
  /\ pnt * lo[2] >= lo[1] * ppm
  /\ pnt * hi[2] <= hi[1] * ppm

\* lines 1867-1873: the clips from position idx on; each clip is tested against
\* spikeTimes[idx], [clips, exc]
RECURSIVE ClipsInWindow(_, _, _, _, _, _)
ClipsInWindow(clips, spikeTimes0, ppm, lo, hi, idx) ==
  IF idx >= Len(clips) THEN [clips |-> <<>>, exc |-> ""]
  ELSE IF idx >= Len(spikeTimes0) THEN [clips |-> <<>>, exc |-> "IndexError"]
  ELSE LET rest == ClipsInWindow(clips, spikeTimes0, ppm, lo, hi, idx + 1)
       IN  [clips |-> (IF InTimeWindow(At(spikeTimes0, idx), ppm, lo, hi)
                         THEN <<At(clips, idx)>> ELSE <<>>) \o rest.clips,
            exc |-> rest.exc]

\* getSpikeClips(theMin, theMax, spikeClipWidth_ms, sweepNumber):
\* [none, made, clips, exc]; none: the call returned None; made: the result of
\* _makeSpikeClips, which replaces the stored clips
getSpikeClips(sd, y, dd, ppm, theMin, theMax, spikeClipWidth_ms, sweepNumber0) ==
  LET made == makeSpikeClips(sd, y, dd, ppm, spikeClipWidth_ms, sweepNumber0)
  IN  IF Len(sd) = 0
        THEN [none |-> TRUE, made |-> made, clips |-> <<>>, exc |-> ""]
      ELSE IF made.exc # ""
        THEN [none |-> FALSE, made |-> made, clips |-> <<>>, exc |-> made.exc]
      ELSE
        LET whole == theMin = None \/ theMax = None
            lo == IF whole THEN <<0, 1>> ELSE <<theMin[1], 1>>
            hi == IF whole THEN <<Len(y[1]) - 1, ppm>> ELSE <<theMax[1], 1>>
            spikeTimes0 == getStat(sd, "thresholdPnt", None, sweepNumber0).x
            r == ClipsInWindow(made.clips, spikeTimes0, ppm, lo, hi, 0)
        IN  [none |-> FALSE, made |-> made, clips |-> r.clips, exc |-> r.exc]

(***************************************************************************)
(* _saveToHdf: [didSave, dirty, store] from the flag, the file and the     *)
(* object to store.                                                        *)
(***************************************************************************)
\* a save that writes whatever the flag
saveToHdfAlways(dirty, store, obj) ==
  [didSave |-> TRUE, dirty |-> FALSE, store |-> Some(obj)]

saveToHdf(dirty, store, obj) ==
  IF ~dirty
    THEN [didSave |-> FALSE, dirty |-> dirty, store |-> store]     \* lines 288-291
    ELSE [didSave |-> TRUE, dirty |-> FALSE, store |-> Some(obj)]  \* lines 295-318

(***************************************************************************)
(* The recordings and the configurations the model draws from.             *)
(***************************************************************************)
NumPnts == 120
MaxSweeps == 2
MaxPPM == 2
MaxCalls == 2
MaxSaves == 2

\* a piecewise linear trace: segments <<slope, length>> from the value v0
Ramp(v0, slope, n) == Tuple([k \in 1..n |-> v0 + slope * k])

RECURSIVE Build(_, _)
Build(v0, segs) ==
  IF segs = <<>> THEN <<>>
  ELSE LET r == Ramp(v0, Head(segs)[1], Head(segs)[2])
       IN  r \o Build(IF r = <<>> THEN v0 ELSE r[Len(r)], Tail(segs))

\* cut or extend (with the last value) to n samples
Fit(sig, n) == Tuple([k \in 1..n |-> IF k <= Len(sig) THEN sig[k] ELSE sig[Len(sig)]])

\* a spike: three samples up, three samples down
Pulse == <<<<4, 3>>, <<-4, 3>>>>
\* an upstroke in two steps with a slow rise between them
Notched == <<<<4, 6>>, <<1, 6>>, <<4, 6>>, <<-9, 6>>>>

Quiet == <<<<0, 1>>>>
OneSpike == <<<<0, 20>>>> \o Pulse
ThreeSpikes == <<<<0, 20>>>> \o Pulse \o <<<<0, 12>>>> \o Pulse \o <<<<0, 12>>>> \o Pulse
FarSpikes == <<<<0, 20>>>> \o Pulse \o <<<<0, 74>>>> \o Pulse
NotchedSpike == <<<<0, 20>>>> \o Notched
EarlySpike == <<<<0, 11>>>> \o Pulse
\* a spike whose upstroke follows a three-sample dip below the baseline
DipSpike == <<<<0, 10>>, <<1, 1>>, <<0, 6>>, <<-4, 1>>, <<0, 2>>, <<6, 1>>, <<4, 3>>, <<-5, 3>>>>

Programs == {Quiet, OneSpike, ThreeSpikes, FarSpikes, NotchedSpike, EarlySpike, DipSpike}
\* the sweeps of a two-sweep recording
FirstPrograms == {Quiet, OneSpike, ThreeSpikes}
SecondPrograms == {OneSpike, ThreeSpikes}

Signal(prog) == Fit(Build(0, prog), NumPnts)

\* recordings of n >= 2 sweeps
MultiSweep(n) ==
  {Tuple(r) : r \in {f \in [1..n -> {Signal(p) : p \in FirstPrograms \cup SecondPrograms}] :
                       /\ f[1] \in {Signal(p) : p \in FirstPrograms}
                       /\ \A k \in 2..n : f[k] \in {Signal(p) : p \in SecondPrograms}}}

Recordings ==
  {<<Signal(p)>> : p \in Programs} \cup UNION {MultiSweep(n) : n \in 2..MaxSweeps}

BaseDvdt ==
  [dvdtThreshold |-> Some(1), mvThreshold |-> 2, medianFilter |-> 0,
   SavitzkyGolay_pnts |-> 5, SavitzkyGolay_poly |-> 2,
   halfHeights |-> <<20, 80>>,
   mdp_ms |-> 8, refractory_ms |-> 5, peakWindow_ms |-> 6,
   dvdtPreWindow_ms |-> 4, avgWindow_ms |-> 2, pctNum |-> 1, pctDen |-> 10,
   halfWidthWindow_ms |-> 8, doBackupSpikeVm |-> TRUE,
   spikeClipWidth_ms |-> 10, onlyPeaksAbove_mV |-> Some(2),
   missing |-> {}]

\* a pre-roll window longer than the refractory period
WideDvdt == [BaseDvdt EXCEPT !.dvdtPreWindow_ms = 20]
\* no pre-roll window
ZeroWindowDvdt == [BaseDvdt EXCEPT !.dvdtPreWindow_ms = 0]
\* no pre-roll window and no peak floor
ZeroWindowNoGate == [ZeroWindowDvdt EXCEPT !.onlyPeaksAbove_mV = None]
\* a diastolic-minimum window longer than the gap between two spikes
LongMdp == [BaseDvdt EXCEPT !.mdp_ms = 30]
\* the median filter selected
MedianDvdt == [BaseDvdt EXCEPT !.medianFilter = 3]
\* amplitude threshold only
MvBackup == [BaseDvdt EXCEPT !.dvdtThreshold = None, !.onlyPeaksAbove_mV = None,
                             !.peakWindow_ms = 20]
MvPlain == [MvBackup EXCEPT !.doBackupSpikeVm = FALSE, !.mdp_ms = 0]
\* amplitude threshold with the backup search and a short peak window
MvShortPeak == [MvBackup EXCEPT !.peakWindow_ms = 2]
\* dictionaries that lack a key
NoThreshold == [BaseDvdt EXCEPT !.missing = {"dvdtThreshold"}]
NoStartSeconds == [BaseDvdt EXCEPT !.missing = {"startSeconds"}]

Configs == {BaseDvdt, WideDvdt, ZeroWindowDvdt, ZeroWindowNoGate, LongMdp, MedianDvdt,
            MvBackup, MvPlain, MvShortPeak, NoThreshold, NoStartSeconds}

\* the recordings and configurations of the runs that repeat a configuration
RepeatRecordings == {<<Signal(ThreeSpikes)>>, <<Signal(OneSpike), Signal(ThreeSpikes)>>}
RepeatConfigs == {BaseDvdt, MvPlain, NoStartSeconds}

(***************************************************************************)
(* The state of one bAnalysis object and of the detection call in progress.*)
(***************************************************************************)
VARIABLES
  recordingMode,     \* _recordingMode
  dataPointsPerMs,   \* _dataPointsPerMs
  sweepY,            \* _sweepY, one sequence per sweep
  filteredVm,        \* _filteredVm, times VmScale
  filteredDeriv,     \* _filteredDeriv, times DvScale
  detectionDict,     \* None or <<config>>
  spikeDict,         \* the spike records
  dfError,           \* None or <<error table>>
  hdfStore,          \* the h5 file: None or <<object stored under the uuid>>
  spikeClips,        \* None or <<the clips>>
  spikeClips_x,      \* None or <<the relative time axis>>
  detectionDirty,    \* _detectionDirty
  pc,                \* "idle", "sweep" or "spike": where spikeDetect is;
                     \* "noObject" when the constructor raised
  dDictArg,          \* the dDict argument of the call in progress
  sweepNumber,       \* the sweep spikeDetect__ works on
  spikeTimes,        \* the onsets of that sweep
  spikeErrorList,    \* their error entries
  spikeIdx,          \* the loop variable i of line 1209
  raised,            \* the exception the last call ended with, "" if none
  ret,               \* the value the last accessor call returned, None if none
  calls,             \* the number of spikeDetect calls so far
  recRun,            \* for each record, the call that appended it
  before,            \* the object as it was when the call in progress began
  history            \* the completed calls: [cfg, result]

vars == <<recordingMode, dataPointsPerMs, sweepY, filteredVm, filteredDeriv, detectionDict, spikeDict,
          dfError, hdfStore, spikeClips, spikeClips_x, detectionDirty, pc, dDictArg, sweepNumber, spikeTimes,
          spikeErrorList, spikeIdx, raised, ret, calls, recRun, before, history>>

\* a spike count that restarts with every sweep
numSpikesOfSweep == spikeIdx

numSweeps == Len(sweepY)
numSpikes == Len(spikeDict)

\* rebuildFiltered (I-Clamp): _getDerivative() is called without a dDict, so the
\* filter is the one of getDefaultDetection
rebuildFilteredVm(y) ==
  Tuple([sw \in 1..Len(y) |-> getFilteredVm(y[sw], getDefaultDetection)])
rebuildFilteredDeriv(vm, ppm) ==
  Tuple([sw \in 1..Len(vm) |-> getDerivative(vm[sw], getDefaultDetection, ppm)])

Snapshot ==
  [spikeDict |-> spikeDict, detectionDict |-> detectionDict, filteredVm |-> filteredVm,
   filteredDeriv |-> filteredDeriv, detectionDirty |-> detectionDirty]

\* _loadAbf, lines 362-367: the mode follows the units of the amplitude
RecordingModes == {"I-Clamp", "V-Clamp"}

\* rebuildFiltered (V-Clamp): _getBaselineSubtract hands the method self.sweepY,
\* not an array, to scipy.signal.medfilt2d (line 640), which raises; the type of
\* the exception depends on the scipy version.  Lines 665-667 are not reached
BaselineSubtractRaises == {"ValueError", "TypeError"}

\* __init__ on one of the recordings; rebuildFiltered is its last step but one
Loaded(recordings) ==
  /\ recordingMode \in RecordingModes
  /\ dataPointsPerMs \in 1..MaxPPM
  /\ sweepY \in recordings
  /\ IF recordingMode = "I-Clamp"
       THEN /\ filteredVm = rebuildFilteredVm(sweepY)
            /\ filteredDeriv = rebuildFilteredDeriv(rebuildFilteredVm(sweepY),
                                                    dataPointsPerMs)
            /\ pc = "idle"
            /\ raised = ""
       ELSE /\ filteredVm = None
            /\ filteredDeriv = None
            /\ pc = "noObject"
            /\ raised \in BaselineSubtractRaises
  /\ detectionDict = None
  /\ spikeDict = <<>>
  /\ dfError = None
  /\ spikeClips = Some(<<>>)
  /\ spikeClips_x = Some(<<>>)
  /\ detectionDirty = FALSE
  /\ dDictArg = None
  /\ sweepNumber = 0
  /\ spikeTimes = <<>>
  /\ spikeErrorList = <<>>
  /\ spikeIdx = 0
  /\ ret = None
  /\ calls = 0
  /\ recRun = <<>>
  /\ before = None
  /\ history = <<>>
  /\ hdfStore = None

Init == Loaded(Recordings)
InitRepeat == Loaded(RepeatRecordings)

\* a spikeDetect that keeps the records of the earlier calls
KeepCollection(sd) == sd

\* a spikeDetect that keeps the first record of the earlier calls
KeepFirstRecord(sd) == IF sd = <<>> THEN sd ELSE <<sd[1]>>

\* line 1120: the collection as spikeDetect leaves it before the first sweep
ResetCollection(sd) == <<>>

\* spikeDetect, lines 1117-1121: the call begins
SpikeDetect(dDict, maxCalls) ==
  /\ pc = "idle"
  /\ calls < maxCalls
  /\ calls' = calls + 1
  /\ before' = Some(Snapshot)
  /\ spikeDict' = ResetCollection(spikeDict)
  /\ recRun' = ResetCollection(recRun)
  /\ dDictArg' = dDict
  /\ sweepNumber' = 0
  /\ spikeTimes' = <<>>
  /\ spikeErrorList' = <<>>
  /\ spikeIdx' = 0
  /\ raised' = ""
  /\ ret' = None
  /\ pc' = "sweep"
  /\ UNCHANGED <<hdfStore, recordingMode, dataPointsPerMs, sweepY, filteredVm, filteredDeriv, detectionDict,
                 dfError, spikeClips, spikeClips_x, detectionDirty, history>>

\* lines 1143-1146: the dictionary the sweep is detected with
ResolvedDict ==
  IF dDictArg # None THEN dDictArg[1]
  ELSE IF detectionDict # None THEN detectionDict[1]
  ELSE getDefaultDetection

\* the call ends with an exception: what is built so far stays
Raise(exc) ==
  /\ raised' = exc
  /\ pc' = "idle"

\* spikeDetect__, lines 1143-1207: the onsets of the sweep
DetectSweep ==
  /\ pc = "sweep"
  /\ LET dDict == ResolvedDict
         sw == sweepNumber + 1
         vm == rebuildFilteredVm(sweepY)
         dv == rebuildFilteredDeriv(vm, dataPointsPerMs)
         on == SweepOnsets(sweepY[sw], vm[sw], dv[sw], dDict, dataPointsPerMs)
     IN  /\ detectionDict' = Some(dDict)
         /\ filteredVm' = vm
         /\ filteredDeriv' = dv
         /\ IF "dvdtThreshold" \in dDict.missing
              THEN Raise("KeyError") /\ UNCHANGED <<spikeTimes, spikeErrorList>>
            ELSE IF on.exc # ""
              THEN Raise(on.exc) /\ UNCHANGED <<spikeTimes, spikeErrorList>>
            ELSE /\ spikeTimes' = on.times
                 /\ spikeErrorList' = on.errors
                 /\ pc' = "spike"
                 /\ raised' = raised
  /\ spikeIdx' = 0
  /\ UNCHANGED <<hdfStore, recordingMode, dataPointsPerMs, sweepY, spikeDict, dfError, spikeClips, spikeClips_x,
                 detectionDirty, dDictArg, sweepNumber, ret, calls, recRun, before,
                 history>>

\* the collection after lines 1263-1676 of spike i: the record at iIdx, and the
\* width annotations on the record line 1668 names
AppendSpike(sd, f, i) ==
  LET sd1 == Append(sd, f.rec)
      owner == WidthErrorOwner(i, Len(sd)) + 1
  IN  [sd1 EXCEPT ![owner].errors = @ \o f.werrs]

\* spikeDetect__, lines 1209-1676: one iteration of the loop over the onsets
SpikeStep ==
  /\ pc = "spike"
  /\ spikeIdx < Len(spikeTimes)
  /\ LET dDict == detectionDict[1]
         sw == sweepNumber + 1
         vm == filteredVm[sw]
         dv == filteredDeriv[sw]
         i == spikeIdx
         spikeTime == At(spikeTimes, i)
         pre == PreAppendExc(vm, dDict, dataPointsPerMs, i, spikeTime, spikeErrorList)
     IN  IF pre # ""
           THEN Raise(pre) /\ UNCHANGED <<spikeDict, recRun, spikeIdx>>
           ELSE
             LET base == BaseRecord(vm, dv, dDict, dataPointsPerMs, sweepNumber, i,
                                    numSpikes, spikeTime, At(spikeErrorList, i))
                 prev == IF numSpikes > 0 THEN spikeDict[numSpikes] ELSE base
                 f == SpikeFeatures(base, prev, vm, dv, dDict, dataPointsPerMs, i,
                                    numSpikes, spikeTime)
             IN  /\ spikeDict' = AppendSpike(spikeDict, f, i)
                 /\ recRun' = Append(recRun, calls)
                 /\ IF f.exc # ""
                      THEN Raise(f.exc) /\ spikeIdx' = spikeIdx
                      ELSE spikeIdx' = spikeIdx + 1 /\ pc' = pc /\ raised' = raised
  /\ UNCHANGED <<hdfStore, recordingMode, dataPointsPerMs, sweepY, filteredVm, filteredDeriv, detectionDict,
                 dfError, spikeClips, spikeClips_x, detectionDirty, dDictArg, sweepNumber,
                 spikeTimes, spikeErrorList, ret, calls, before, history>>

\* spikeDetect__, lines 1684-1746, and the loop of spikeDetect, lines 1121-1123
FinishSweep ==
  /\ pc = "spike"
  /\ spikeIdx = Len(spikeTimes)
  /\ spikeClips' = None          \* lines 1684-1686
  /\ spikeClips_x' = None
  /\ IF "startSeconds" \in detectionDict[1].missing
       THEN /\ Raise("KeyError")
            /\ UNCHANGED <<dfError, detectionDirty, sweepNumber, history>>
       ELSE /\ dfError' = Some(errorReport(spikeDict))
            /\ detectionDirty' = TRUE
            /\ raised' = raised
            /\ IF sweepNumber + 1 < numSweeps
                 THEN /\ sweepNumber' = sweepNumber + 1
                      /\ pc' = "sweep"
                      /\ history' = history
                 ELSE /\ sweepNumber' = sweepNumber
                      /\ pc' = "idle"
                      /\ history' = Append(history, [cfg |-> detectionDict[1],
                                                     result |-> spikeDict])
  /\ UNCHANGED <<hdfStore, recordingMode, dataPointsPerMs, sweepY, filteredVm, filteredDeriv, detectionDict,
                 spikeDict, dDictArg, spikeTimes, spikeErrorList, spikeIdx, ret, calls,
                 recRun, before>>

\* the accessor calls the model draws from: <<statName1, statName2, sweepNumber>>
StatCalls ==
  {<<"thresholdPnt", None, SweepNone>>,
   <<"thresholdPnt", Some("preMinPnt"), SweepAll>>,
   <<"thresholdPnt", None, SweepN(1)>>,
   <<"preMinPnt", None, SweepN(0)>>,
   <<"noSuchStat", None, SweepAll>>,
   <<"thresholdPnt", Some("noSuchStat"), SweepAll>>}

\* getStat(statName1, statName2, sweepNumber)
GetStat(statName1, statName2, sweepArg) ==
  /\ pc = "idle"
  /\ ret = None
  /\ ret' = Some([call |-> <<statName1, statName2, sweepArg>>,
                  value |-> getStat(spikeDict, statName1, statName2, sweepArg)])
  /\ UNCHANGED <<hdfStore, recordingMode, dataPointsPerMs, sweepY, filteredVm, filteredDeriv, detectionDict,
                 spikeDict, dfError, spikeClips, spikeClips_x, detectionDirty, pc,
                 dDictArg, sweepNumber, spikeTimes, spikeErrorList, spikeIdx, raised,
                 calls, recRun, before, history>>

\* the clip calls the model draws from: <<spikeClipWidth_ms, sweepNumber>>
ClipCalls ==
  {<<None, SweepNone>>, <<Some(5), SweepAll>>, <<Some(50), SweepNone>>,
   <<Some(50), SweepN(1)>>}

\* _makeSpikeClips(spikeClipWidth_ms, None, sweepNumber)
MakeSpikeClips(spikeClipWidth_ms, sweepArg) ==
  /\ pc = "idle"
  /\ ret = None
  /\ LET r == makeSpikeClips(spikeDict, sweepY, detectionDict, dataPointsPerMs,
                             spikeClipWidth_ms, sweepArg)
     IN  /\ ret' = Some([call |-> <<"_makeSpikeClips", spikeClipWidth_ms, sweepArg>>,
                         value |-> r])
         /\ IF r.exc = "TypeError"
              THEN UNCHANGED <<spikeClips, spikeClips_x>>
              ELSE spikeClips' = Some(r.clips) /\ spikeClips_x' = Some(r.x)
  /\ UNCHANGED <<hdfStore, recordingMode, dataPointsPerMs, sweepY, filteredVm, filteredDeriv, detectionDict,
                 spikeDict, dfError, detectionDirty, pc, dDictArg, sweepNumber,
                 spikeTimes, spikeErrorList, spikeIdx, raised, calls, recRun, before,
                 history>>

\* the getSpikeClips calls the model draws from:
\* <<theMin, theMax, spikeClipWidth_ms, sweepNumber>>, times in ms
WindowCalls ==
  {<<None, None, Some(5), SweepNone>>,
   <<None, None, Some(5), SweepAll>>,
   <<Some(30), Some(60), Some(50), SweepAll>>,
   <<Some(30), Some(60), Some(5), SweepN(0)>>}

\* getSpikeClips(theMin, theMax, spikeClipWidth_ms, sweepNumber)
GetSpikeClips(theMin, theMax, spikeClipWidth_ms, sweepArg) ==
  /\ pc = "idle"
  /\ ret = None
  /\ LET r == getSpikeClips(spikeDict, sweepY, detectionDict, dataPointsPerMs,
                            theMin, theMax, spikeClipWidth_ms, sweepArg)
     IN  /\ ret' = Some([call |-> <<"getSpikeClips", spikeClipWidth_ms, sweepArg,
                                    theMin, theMax>>,
                         value |-> r])
         /\ IF r.none \/ r.made.exc = "TypeError"
              THEN UNCHANGED <<spikeClips, spikeClips_x>>
              ELSE spikeClips' = Some(r.made.clips) /\ spikeClips_x' = Some(r.made.x)
  /\ UNCHANGED <<hdfStore, recordingMode, dataPointsPerMs, sweepY, filteredVm, filteredDeriv, detectionDict,
                 spikeDict, dfError, detectionDirty, pc, dDictArg, sweepNumber,
                 spikeTimes, spikeErrorList, spikeIdx, raised, calls, recRun, before,
                 history>>

Next ==
  \/ \E dDict \in {None} \cup {Some(c) : c \in Configs} : SpikeDetect(dDict, MaxCalls)
  \/ DetectSweep
  \/ SpikeStep
  \/ FinishSweep
  \/ \E c \in StatCalls : GetStat(c[1], c[2], c[3])

Spec == Init /\ [][Next]_vars

\* one more call, on fewer recordings and configurations
NextRepeat ==
  \/ \E dDict \in {None} \cup {Some(c) : c \in RepeatConfigs} :
        SpikeDetect(dDict, MaxCalls + 1)
  \/ DetectSweep
  \/ SpikeStep
  \/ FinishSweep
  \/ \E c \in StatCalls : GetStat(c[1], c[2], c[3])

SpecRepeat == InitRepeat /\ [][NextRepeat]_vars

\* errorReport()
ErrorReport ==
  /\ pc = "idle"
  /\ ret = None
  /\ ret' = Some([call |-> <<"errorReport", None, SweepNone>>,
                  value |-> errorReportCall(spikeDict, detectionDict)])
  /\ UNCHANGED <<hdfStore, recordingMode, dataPointsPerMs, sweepY, filteredVm, filteredDeriv, detectionDict,
                 spikeDict, dfError, spikeClips, spikeClips_x, detectionDirty, pc,
                 dDictArg, sweepNumber, spikeTimes, spikeErrorList, spikeIdx, raised,
                 calls, recRun, before, history>>

\* detection runs and then a clip call or an error report
ClipRecordings ==
  {<<Signal(ThreeSpikes)>>, <<Signal(FarSpikes)>>, <<Signal(EarlySpike)>>,
   <<Signal(OneSpike), Signal(ThreeSpikes)>>, <<Signal(Quiet), Signal(OneSpike)>>}
ClipConfigs == {BaseDvdt, MvBackup, MvPlain}

InitClips == Loaded(ClipRecordings)

NextClips ==
  \/ \E dDict \in {Some(c) : c \in ClipConfigs} : SpikeDetect(dDict, MaxCalls)
  \/ DetectSweep
  \/ SpikeStep
  \/ FinishSweep
  \/ \E c \in ClipCalls : MakeSpikeClips(c[1], c[2])
  \/ \E c \in WindowCalls : GetSpikeClips(c[1], c[2], c[3], c[4])
  \/ ErrorReport

SpecClips == InitClips /\ [][NextClips]_vars

(***************************************************************************)
(* _throwOutRefractory on its own: the candidate lists it is given.        *)
(***************************************************************************)
CandidatePnts == {0, 3, 6, 9, 12}
RefractoryChoices == {2, 5, 8}

RECURSIVE SortedSeq(_)
SortedSeq(S) ==
  IF S = {} THEN <<>> ELSE <<MinOf(S)>> \o SortedSeq(S \ {MinOf(S)})

\* the strictly increasing lists over the candidate points
CandidateLists == {SortedSeq(S) : S \in SUBSET CandidatePnts}

InitRefractory ==
  /\ recordingMode = "I-Clamp"
  /\ dataPointsPerMs \in 1..MaxPPM
  /\ sweepY = <<Signal(Quiet)>>
  /\ filteredVm = rebuildFilteredVm(sweepY)
  /\ filteredDeriv = rebuildFilteredDeriv(rebuildFilteredVm(sweepY), dataPointsPerMs)
  /\ detectionDict \in {Some([MvPlain EXCEPT !.refractory_ms = r]) : r \in RefractoryChoices}
  /\ spikeDict = <<>>
  /\ dfError = None
  /\ spikeClips = Some(<<>>)
  /\ spikeClips_x = Some(<<>>)
  /\ detectionDirty = FALSE
  /\ pc = "refractory"
  /\ dDictArg = None
  /\ sweepNumber = 0
  /\ spikeTimes \in CandidateLists
  /\ spikeErrorList = Tuple([k \in 1..Len(spikeTimes) |-> None])
  /\ spikeIdx = 0
  /\ raised = ""
  /\ ret = None
  /\ calls = 0
  /\ recRun = <<>>
  /\ before = None
  /\ history = <<>>
  /\ hdfStore = None

\* _throwOutRefractory(spikeTimes0, goodSpikeErrors, refractory_ms) as
\* _spikeDetect_vm calls it (line 1105): the list is marked in place
ThrowOutRefractory ==
  /\ pc = "refractory"
  /\ LET refractory_ms == detectionDict[1].refractory_ms
         r == throwOutRefractory(spikeTimes, spikeErrorList, refractory_ms,
                                 dataPointsPerMs)
     IN  /\ before' = Some(spikeTimes)
         /\ spikeTimes' = RefractoryMark(spikeTimes, 0, 0, dataPointsPerMs * refractory_ms)
         /\ ret' = Some([call |-> <<"_throwOutRefractory", None, SweepNone>>, value |-> r])
  /\ pc' = "idle"
  /\ UNCHANGED <<hdfStore, recordingMode, dataPointsPerMs, sweepY, filteredVm, filteredDeriv,
                 detectionDict, spikeDict, dfError, spikeClips, spikeClips_x,
                 detectionDirty, dDictArg, sweepNumber, spikeErrorList, spikeIdx, raised,
                 calls, recRun, history>>

NextRefractory == ThrowOutRefractory

SpecRefractory == InitRefractory /\ [][NextRefractory]_vars

(***************************************************************************)
(* The threshold crossings on their own: short signals over two levels,    *)
(* the threshold between the levels.                                       *)
(***************************************************************************)
MaxSigLen == 6
SigLevels == {0, 1}
CrossingThreshold == 0

ShortSignals == UNION {[1..n -> SigLevels] : n \in 0..MaxSigLen}

InitCrossings ==
  /\ recordingMode = "I-Clamp"
  /\ dataPointsPerMs = 1
  /\ sweepY \in {<<Tuple(sig)>> : sig \in ShortSignals}
  /\ filteredVm = sweepY
  /\ filteredDeriv = sweepY
  /\ detectionDict = Some([MvPlain EXCEPT !.mvThreshold = CrossingThreshold])
  /\ spikeDict = <<>>
  /\ dfError = None
  /\ spikeClips = Some(<<>>)
  /\ spikeClips_x = Some(<<>>)
  /\ detectionDirty = FALSE
  /\ pc = "crossings"
  /\ dDictArg = None
  /\ sweepNumber = 0
  /\ spikeTimes = <<>>
  /\ spikeErrorList = <<>>
  /\ spikeIdx = 0
  /\ raised = ""
  /\ ret = None
  /\ calls = 0
  /\ recRun = <<>>
  /\ before = None
  /\ history = <<>>
  /\ hdfStore = None

\* lines 917-921 and 1052-1056 on the signal of the sweep
Crossings ==
  /\ pc = "crossings"
  /\ spikeTimes' = ThresholdCrossings(filteredVm[1], detectionDict[1].mvThreshold)
  /\ pc' = "idle"
  /\ UNCHANGED <<hdfStore, recordingMode, dataPointsPerMs, sweepY, filteredVm, filteredDeriv,
                 detectionDict, spikeDict, dfError, spikeClips, spikeClips_x,
                 detectionDirty, dDictArg, sweepNumber, spikeErrorList, spikeIdx, raised,
                 ret, calls, recRun, before, history>>

NextCrossings == Crossings

SpecCrossings == InitCrossings /\ [][NextCrossings]_vars

(***************************************************************************)
(* Detection runs and saves.                                               *)
(***************************************************************************)
\* lines 297-310: the instance variables as stored, the flag still set
SavedObject ==
  [spikeDict |-> spikeDict, detectionDict |-> detectionDict, dfError |-> dfError,
   detectionDirty |-> detectionDirty, filteredVm |-> None, filteredDeriv |-> None,
   spikeClips |-> None, spikeClips_x |-> None]

\* the saves since the last detection call
SaveCount == IF ret # None /\ ret[1].call[1] = "_saveToHdf" THEN ret[1].value.n ELSE 0

\* _saveToHdf(hdfPath)
SaveToHdf ==
  /\ pc = "idle"
  /\ SaveCount < MaxSaves
  /\ LET r == saveToHdf(detectionDirty, hdfStore, SavedObject)
     IN  /\ ret' = Some([call |-> <<"_saveToHdf", None, SweepNone>>,
                         value |-> [didSave |-> r.didSave, n |-> SaveCount + 1]])
         /\ detectionDirty' = r.dirty
         /\ hdfStore' = r.store
  /\ UNCHANGED <<recordingMode, dataPointsPerMs, sweepY, filteredVm, filteredDeriv, detectionDict,
                 spikeDict, dfError, spikeClips, spikeClips_x, pc, dDictArg, sweepNumber,
                 spikeTimes, spikeErrorList, spikeIdx, raised, calls, recRun, before,
                 history>>

SaveRecordings ==
  {<<Signal(Quiet)>>, <<Signal(OneSpike)>>, <<Signal(Quiet), Signal(OneSpike)>>}
SaveConfigs == {BaseDvdt, MvPlain, NoStartSeconds}

InitSave == Loaded(SaveRecordings)

NextSave ==
  \/ \E dDict \in {Some(c) : c \in SaveConfigs} : SpikeDetect(dDict, MaxCalls)
  \/ DetectSweep
  \/ SpikeStep
  \/ FinishSweep
  \/ SaveToHdf

SpecSave == InitSave /\ [][NextSave]_vars

(***************************************************************************)
(* Properties of the detection run and of the accessors.                   *)
(***************************************************************************)
\* the last spikeDetect call returned
Completed == pc = "idle" /\ calls > 0 /\ raised = ""

\* record k is the first record of its sweep in the collection
FirstOfSweep(k) == k = 1 \/ spikeDict[k - 1].sweep # spikeDict[k].sweep

ErrorTypes(r) == {r.errors[j].Type : j \in 1..Len(r.errors)}

\* C1: after spikeDetect completes, the onsets (thresholdPnt) of the records of
\* one sweep are strictly increasing in record order.
C1_OnsetsStrictlyIncreasing ==
  Completed =>
    \A k \in 1..Len(spikeDict) :
      ~FirstOfSweep(k) => spikeDict[k - 1].thresholdPnt < spikeDict[k].thresholdPnt

\* C2: after spikeDetect completes, two consecutive records of one sweep have
\* onsets at least refractory_ms apart: the gap in points is at least
\* refractory_ms * dataPointsPerMs.
C2_RefractoryGapKept ==
  Completed =>
    \A k \in 1..Len(spikeDict) :
      ~FirstOfSweep(k) =>
        spikeDict[k].thresholdPnt - spikeDict[k - 1].thresholdPnt
          >= detectionDict[1].refractory_ms * dataPointsPerMs

\* C3: the collection holds the records of the last spikeDetect call and no record
\* of an earlier call.
C3_CollectionIsLastRun ==
  /\ Len(recRun) = Len(spikeDict)
  /\ \A k \in 1..Len(recRun) : recRun[k] = calls

\* a second run over two sweeps has replaced the different records of the first
C3_SecondRunReplaced ==
  /\ Completed
  /\ Len(history) = 2
  /\ history[1].result # <<>>
  /\ spikeDict # history[1].result
  /\ \E j, k \in 1..Len(spikeDict) : spikeDict[j].sweep = 0 /\ spikeDict[k].sweep = 1

\* C4: two completed runs with the same configuration on the same recording give
\* the same collection, whatever runs were made between them.
C4_SameConfigSameResult ==
  \A j, k \in 1..Len(history) :
    history[j].cfg = history[k].cfg => history[j].result = history[k].result

\* a configuration is run, then another one with another result, then the first again
C4_RepeatedAfterOther ==
  /\ Len(history) = 3
  /\ history[1].cfg = history[3].cfg
  /\ history[2].cfg # history[1].cfg
  /\ history[1].result # <<>>
  /\ history[2].result # <<>>
  /\ history[2].result # history[1].result

\* C5: with a configuration that has every field, spikeDetect returns: it never
\* ends with an exception.
C5_DetectAlwaysCompletes ==
  (pc = "idle" /\ calls > 0 /\ detectionDict[1].missing = {}) => raised = ""

\* C6: a spikeDetect call that fails on a configuration lacking a field leaves the
\* collection, the retained configuration, the filtered arrays and the dirty flag
\* as they were before the call.
C6_RejectedCallChangesNothing ==
  (pc = "idle" /\ calls > 0 /\ raised # "" /\ detectionDict[1].missing # {})
    => Snapshot = before[1]

\* the values of one field over the selected records, None as NaN
ExpectedColumn(name, sweepArg) ==
  LET sel == SelectSeq(spikeDict, LAMBDA r : sweepArg.kind # "N" \/ r.sweep = sweepArg.n)
  IN  Tuple([k \in 1..Len(sel) |->
         IF name \in NullableStats /\ sel[k][name] = None THEN NaN ELSE sel[k][name]])

KnownStat(name) == spikeDict # <<>> /\ name \in DOMAIN spikeDict[1]

\* C7: getStat without a sweep filter returns the values of all records in order,
\* with sweep N those of the records of sweep N, None as NaN, and with two names
\* two aligned sequences.
C7_GetStatSelectsRecords ==
  (/\ ret # None
   /\ KnownStat(ret[1].call[1])
   /\ ret[1].call[2] # None => KnownStat(ret[1].call[2][1]))
    => /\ ret[1].value.x = ExpectedColumn(ret[1].call[1], ret[1].call[3])
       /\ ret[1].call[2] # None =>
            /\ ret[1].value.y = ExpectedColumn(ret[1].call[2][1], ret[1].call[3])
            /\ Len(ret[1].value.y) = Len(ret[1].value.x)

\* C8: on a collection that holds records, getStat with a first or second name
\* that is no field of the records fails with UnknownStatistic.
C8_UnknownNameFails ==
  (/\ ret # None
   /\ spikeDict # <<>>
   /\ \/ ~KnownStat(ret[1].call[1])
      \/ ret[1].call[2] # None /\ ~KnownStat(ret[1].call[2][1]))
    => ret[1].value.exc = "UnknownStatistic"

\* C9: the first record of every sweep has no diastolic minimum, no inter-spike
\* interval or frequency, no cycle length, and no 'preMin' or 'cycleLength'
\* annotation.
C9_FirstOfSweepHasNoIntervals ==
  \A k \in 1..Len(spikeDict) :
    FirstOfSweep(k) =>
      /\ spikeDict[k].preMinPnt = None
      /\ spikeDict[k].preMinVal = NaN
      /\ spikeDict[k].isi_pnts = NaN
      /\ spikeDict[k].isi_ms = NaN
      /\ spikeDict[k].spikeFreq_hz = NaN
      /\ spikeDict[k].cycleLength_pnts = NaN
      /\ spikeDict[k].cycleLength_ms = NaN
      /\ ErrorTypes(spikeDict[k]) \cap {"preMin", "cycleLength"} = {}

\* the second sweep of a recording starts after records of the first sweep, whose
\* later spikes have a diastolic minimum
C9_SecondSweepStarts ==
  /\ Completed
  /\ \E k \in 2..Len(spikeDict) : FirstOfSweep(k) /\ spikeDict[k - 1].preMinPnt # None
  /\ \E k \in 2..Len(spikeDict) : spikeDict[k].sweep = 1 /\ spikeDict[k].preMinPnt # None

\* C10: cycleLength_pnts is the difference of the preMinPnt of the record and of
\* the previous record when the record is not the first of its sweep and both
\* have a preMinPnt, and it is null otherwise.
C10_CycleLengthIffBothMinima ==
  \A k \in 1..Len(spikeDict) :
    IF /\ ~FirstOfSweep(k)
       /\ spikeDict[k].preMinPnt # None
       /\ spikeDict[k - 1].preMinPnt # None
      THEN spikeDict[k].cycleLength_pnts
             = Some(spikeDict[k].preMinPnt[1] - spikeDict[k - 1].preMinPnt[1])
      ELSE spikeDict[k].cycleLength_pnts = NaN

\* a sweep whose second record has a minimum and no cycle length, and whose third
\* record has a cycle length
C10_ThirdSpikeHasCycleLength ==
  /\ Completed
  /\ \E k \in 3..Len(spikeDict) :
       /\ spikeDict[k].sweepSpikeNumber = 2
       /\ spikeDict[k].cycleLength_pnts # NaN
       /\ spikeDict[k - 1].preMinPnt # None
       /\ spikeDict[k - 1].cycleLength_pnts = NaN

\* C11: in every width record in which a falling and a rising point were found,
\* widthPnts = fallingPnt - thresholdPnt, risingPnt = thresholdPnt, and widthMs and
\* the widths_<fraction> field of the record are widthPnts / dataPointsPerMs.
C11_WidthAgreesWithDefinition ==
  \A k \in 1..Len(spikeDict) :
    \A j \in 1..Len(spikeDict[k].widths) :
      LET w == spikeDict[k].widths[j]
      IN  w.fallingPnt # None =>
            /\ w.widthPnts = Some(w.fallingPnt[1] - spikeDict[k].thresholdPnt)
            /\ w.risingPnt = Some(spikeDict[k].thresholdPnt)
            /\ w.widthMs = <<w.widthPnts[1], dataPointsPerMs>>
            /\ spikeDict[k].widthsMs[j] = <<w.widthPnts[1], dataPointsPerMs>>

\* C12: after spikeDetect completes on a recording of several sweeps, every record
\* holds as many 'spikeWidth' annotations in its own errors as it has half heights
\* with a null width, and the width of every half height is the one computed for
\* that half height alone.
C12_WidthErrorsOnOwner ==
  (Completed /\ numSweeps >= 2) =>
    \A k \in 1..Len(spikeDict) :
      LET r == spikeDict[k]
      IN  /\ Len(SelectSeq(r.errors, LAMBDA e : e.Type = "spikeWidth"))
               = Len(SelectSeq(r.widthsMs, LAMBDA w : w = NaN))
          /\ \A j \in 1..Len(r.halfHeights) :
               r.widths[j] = HalfWidth(r, filteredVm[r.sweep + 1], detectionDict[1],
                                       dataPointsPerMs, r.halfHeights[j]).width

\* C13: the onset list and the error list that detection hands to the feature
\* loop of a sweep have the same length, and a non-null entry i of the error list
\* names the point of onset i.
C13_ErrorListParallel ==
  (pc = "spike" /\ spikeIdx = 0) =>
    /\ Len(spikeErrorList) = Len(spikeTimes)
    /\ \A k \in 1..Len(spikeErrorList) :
         (k <= Len(spikeTimes) /\ spikeErrorList[k] # None)
           => spikeErrorList[k][1].Pnt = spikeTimes[k]

\* the last accessor call was _makeSpikeClips and it returned
ClipsReturned ==
  ret # None /\ ret[1].call[1] = "_makeSpikeClips" /\ ret[1].value.exc = ""

\* the half width in points of the last clip call
ClipHalf ==
  LET ms == IF ret[1].call[2] = None THEN detectionDict[1].spikeClipWidth_ms
            ELSE ret[1].call[2][1]
      pnts == ms * dataPointsPerMs
  IN  (pnts + (pnts % 2)) \div 2

\* the records the last clip call selects
ClipSelected ==
  SelectSeq(spikeDict, LAMBDA r : ret[1].call[3].kind # "N" \/ r.sweep = ret[1].call[3].n)

\* the window [onset - half, onset + half) of a record lies inside its sweep
FullWindow(r) ==
  r.thresholdPnt - ClipHalf >= 0 /\ r.thresholdPnt + ClipHalf <= Len(sweepY[r.sweep + 1])

ErrorsBefore(k) == SumSeq(Tuple([j \in 1..(k - 1) |-> Len(spikeDict[j].errors)]))

\* the table holds the annotations of the records, record after record
IsErrorTable(rows) ==
  /\ Len(rows) = ErrorsBefore(Len(spikeDict) + 1)
  /\ \A k \in 1..Len(spikeDict) :
       \A j \in 1..Len(spikeDict[k].errors) :
         ErrorsBefore(k) + j <= Len(rows)
           /\ rows[ErrorsBefore(k) + j] = spikeDict[k].errors[j]

\* C15: errorReport returns the table of the annotations of the records in
\* collection order, the empty table when there are none, and after spikeDetect
\* completes dfError is that table for the final collection.
C15_ErrorReportIsConcatenation ==
  /\ (ret # None /\ ret[1].call[1] = "errorReport")
       => ret[1].value.exc = "" /\ IsErrorTable(ret[1].value.rows)
  /\ Completed => dfError # None /\ IsErrorTable(dfError[1])

\* C16: when the window of the diastolic-minimum search (mdp_ms) is longer than
\* the gap between the second spike of a sweep and the first, the record of the
\* second spike has a 'preMin' annotation and no diastolic minimum.
C16_WideWindowGivesPreMinError ==
  Completed =>
    \A k \in 2..Len(spikeDict) :
      (/\ spikeDict[k].sweepSpikeNumber = 1
       /\ spikeDict[k - 1].sweep = spikeDict[k].sweep
       /\ detectionDict[1].mdp_ms * dataPointsPerMs
            > spikeDict[k].thresholdPnt - spikeDict[k - 1].thresholdPnt)
        => /\ "preMin" \in ErrorTypes(spikeDict[k])
           /\ spikeDict[k].preMinPnt = None
           /\ spikeDict[k].preMinVal = NaN

\* C17: after spikeDetect completes, the filtered amplitude and the filtered
\* derivative of every sweep are those computed with the filter selection of the
\* configuration of the run (median filter, else Savitzky-Golay, else none).
C17_FilterOfTheRunConfig ==
  Completed =>
    \A sw \in 1..numSweeps :
      /\ filteredVm[sw] = getFilteredVm(sweepY[sw], detectionDict[1])
      /\ filteredDeriv[sw]
           = getDerivative(getFilteredVm(sweepY[sw], detectionDict[1]), detectionDict[1],
                           dataPointsPerMs)

\* C18: after construction and after every completed detection run, in both
\* recording modes, the filtered amplitude and the filtered derivative are set and
\* have the shape of the raw amplitude for every sweep, and in current-clamp mode
\* the derivative at sample 0 of every sweep is 0.
C18_FilteredShapesMatchRaw ==
  (calls = 0 \/ Completed) =>
    /\ Len(filteredVm) = numSweeps
    /\ Len(filteredDeriv) = numSweeps
    /\ \A sw \in 1..numSweeps :
         (sw <= Len(filteredVm) /\ sw <= Len(filteredDeriv)) =>
           /\ Len(filteredVm[sw]) = Len(sweepY[sw])
           /\ Len(filteredDeriv[sw]) = Len(sweepY[sw])
           /\ recordingMode = "I-Clamp" => filteredDeriv[sw][1] = 0

\* the collection as the last completed run left it, empty before the first
LastCompleteCollection ==
  IF history = <<>> THEN <<>> ELSE history[Len(history)].result

\* C19: a detection run replaces the collection in one step: at every moment at
\* which a reader may look, the collection is the complete result of a finished
\* run (or the empty collection of construction), never an emptied list, a part
\* of the new records, or a record whose fields are not yet filled.
C19_CollectionReplacedAtomically ==
  spikeDict = LastCompleteCollection

\* the candidates that are at least minPnts after the most recently kept one
RECURSIVE KeptAfter(_, _, _)
KeptAfter(s, last, minPnts) ==
  IF s = <<>> THEN <<>>
  ELSE IF Head(s) - last >= minPnts
         THEN <<Head(s)>> \o KeptAfter(Tail(s), Head(s), minPnts)
         ELSE KeptAfter(Tail(s), last, minPnts)

\* C20: _throwOutRefractory on a strictly increasing list of candidates, a
\* candidate at sample 0 included, keeps the first candidate and each later one
\* exactly when it is at least refractory_ms * dataPointsPerMs points after the
\* most recently kept candidate.
C20_KeepsFirstOfEachCluster ==
  (ret # None /\ ret[1].call[1] = "_throwOutRefractory") =>
    ret[1].value.times
      = IF before[1] = <<>> THEN <<>>
        ELSE <<Head(before[1])>>
               \o KeptAfter(Tail(before[1]), Head(before[1]),
                            detectionDict[1].refractory_ms * dataPointsPerMs)

\* sample t (0-based) starts a run of samples above the threshold
StartsRun(sig, thr, t) == At(sig, t) > thr /\ (t = 0 \/ At(sig, t - 1) <= thr)

\* C21: the raw crossing list is the increasing list of the first samples of the
\* maximal runs of consecutive samples above the threshold, a run that starts at
\* sample 0 or at sample 1 included.
C21_CrossingsAreRunStarts ==
  pc = "idle" =>
    spikeTimes = SelectSeq(Idx(Len(filteredVm[1])),
                           LAMBDA t : StartsRun(filteredVm[1],
                                                detectionDict[1].mvThreshold, t))

\* lines 917-958: the crossings of a sweep that survive the peak test and the
\* refractory period
SurvivingCrossings(y, deriv, dDict, ppm) ==
  throwOutRefractory(
    PeakGate(y, ThresholdCrossings(deriv, DvScale * dDict.dvdtThreshold[1]),
             ppm * dDict.peakWindow_ms, dDict.mvThreshold),
    None, dDict.refractory_ms, ppm).times

\* the onset t with error entry e is one of the two outcomes for the crossing c
RefinedOrFallback(deriv, dDict, ppm, c, t, e) ==
  LET window == dDict.dvdtPreWindow_ms * ppm
      post == PySlice(deriv, c, c + window)
  IN  \/ /\ e = None
         /\ t \in (c - window)..(c - 1)
         /\ t >= 0
         /\ post # <<>>
         /\ At(deriv, t) * dDict.pctDen < At(post, ArgMax(post)) * dDict.pctNum
      \/ /\ e # None
         /\ e[1].Type = "dvdtPercent"
         /\ t = c

\* C22: in derivative mode every crossing that survives the refractory period
\* yields either an onset in [c - window, c - 1] whose derivative is below
\* dvdt_percentOfMax of the maximum after the crossing, with a null error entry,
\* or the crossing itself with a 'dvdtPercent' annotation.
C22_RefinedOnsetOrFallback ==
  (pc = "sweep" /\ detectionDict # None /\ detectionDict[1].dvdtThreshold # None
     /\ detectionDict[1].missing = {}) =>
    \A sw \in 1..numSweeps :
      LET dDict == detectionDict[1]
          r == spikeDetect_dvdt(sweepY[sw], filteredDeriv[sw], dDict, dataPointsPerMs)
          cs == SurvivingCrossings(sweepY[sw], filteredDeriv[sw], dDict, dataPointsPerMs)
      IN  r.exc = "" =>
            /\ Len(r.times) = Len(cs)
            /\ Len(r.errors) = Len(cs)
            /\ \A k \in 1..Len(cs) :
                 k <= Len(r.times) /\ k <= Len(r.errors)
                   /\ RefinedOrFallback(filteredDeriv[sw], dDict, dataPointsPerMs, cs[k],
                                        r.times[k], r.errors[k])

\* the onsets of sweep sw before the backup search of _backupSpikeVm
CrudeOnsets(sw) ==
  spikeDetect_vm(sweepY[sw], filteredVm[sw], detectionDict[1], dataPointsPerMs).times

\* the comparisons the backup search makes for the crude onset c of sweep sw
ComparisonsFor(sw, c) ==
  LET myVm == MedFilt(sweepY[sw], backupMedianFilter)
      half_bin_pnts == Floor2(bin_ms * dataPointsPerMs)
  IN  BackupComparisons(myVm, c,
                        MeanOf(PySlice(myVm, c - half_bin_pnts, c + half_bin_pnts)),
                        0, dataPointsPerMs)

\* a sweep has just been detected in amplitude mode with the backup search
BackedUp ==
  /\ pc = "spike" /\ spikeIdx = 0
  /\ detectionDict # None
  /\ detectionDict[1].dvdtThreshold = None
  /\ detectionDict[1].doBackupSpikeVm
  /\ detectionDict[1].onlyPeaksAbove_mV = None

\* C23: the backup search ends for every onset after at most
\* maxNumPntsToBackup + 1 comparisons and assigns one refined onset to each
\* input onset.
C23_BackupTerminates ==
  BackedUp =>
    LET crude == CrudeOnsets(sweepNumber + 1)
    IN  /\ Len(spikeTimes) = Len(crude)
        /\ \A k \in 1..Len(crude) :
             /\ ComparisonsFor(sweepNumber + 1, crude[k]) \in 1..(maxNumPntsToBackup + 1)
             /\ spikeTimes[k] \in Int

\* C24: in amplitude mode with the backup search the refined onset is never
\* later than the crude crossing and never more than maxNumPntsToBackup bins
\* before it.
C24_BackupWithinRange ==
  BackedUp =>
    LET crude == CrudeOnsets(sweepNumber + 1)
        bin_pnts == bin_ms * dataPointsPerMs
    IN  /\ Len(spikeTimes) = Len(crude)
        /\ \A k \in 1..Len(crude) :
             /\ spikeTimes[k] <= crude[k]
             /\ spikeTimes[k] >= crude[k] - maxNumPntsToBackup * bin_pnts


\* a backup search that walked to the maximum backup count: every window mean
\* is undefined or the signal keeps falling towards the start of the sweep
C23_CapReached ==
  /\ BackedUp
  /\ \E k \in 1..Len(CrudeOnsets(sweepNumber + 1)) :
       ComparisonsFor(sweepNumber + 1, CrudeOnsets(sweepNumber + 1)[k]) = maxNumPntsToBackup + 1


\* C25: a record whose preMinPnt is None has no preMinVal, no
\* diastolicDuration_ms and no cycle length, and a record that is not the first
\* of its sweep has preMinPnt None exactly when it carries a 'preMin' error.
C25_NoDiastolicWithoutPreMin ==
  Completed =>
    \A k \in 1..Len(spikeDict) :
      LET r == spikeDict[k]
      IN  /\ r.preMinPnt = None =>
               /\ r.preMinVal = NaN
               /\ r.diastolicDuration_ms = NaN
               /\ r.cycleLength_pnts = NaN
               /\ r.cycleLength_ms = NaN
          /\ ~FirstOfSweep(k) => (r.preMinPnt = None <=> "preMin" \in ErrorTypes(r))


\* the filtered amplitude at sample p of the sweep of record r is strictly below
\* the local average preMinVal of the record
BelowPreMinVal(r, p) ==
  /\ p \in 0..(Len(filteredVm[r.sweep + 1]) - 1)
  /\ At(filteredVm[r.sweep + 1], p) * r.preMinVal[2] < r.preMinVal[1]

\* C26: a record with a diastolic minimum has preMinPnt before its onset, at
\* the first sample, scanning backward from the sample before the onset, whose
\* filtered amplitude is strictly below preMinVal.
C26_PreMinIsFirstBelowAverage ==
  Completed =>
    \A k \in 1..Len(spikeDict) :
      LET r == spikeDict[k]
      IN  r.preMinPnt # None =>
            /\ r.preMinPnt[1] < r.thresholdPnt
            /\ BelowPreMinVal(r, r.preMinPnt[1])
            /\ \A q \in (r.preMinPnt[1] + 1)..(r.thresholdPnt - 1) : ~BelowPreMinVal(r, q)


\* C27: the onset of every spike record is a sample index of its sweep,
\* 0 <= thresholdPnt < number of samples, in both detection modes.
C27_OnsetIsValidIndex ==
  \A k \in 1..Len(spikeDict) :
    spikeDict[k].thresholdPnt \in 0..(Len(sweepY[spikeDict[k].sweep + 1]) - 1)


\* C28: after spikeDetect completes, the record at position k (from 0) has
\* spikeNumber k, the records are grouped by sweep in ascending order,
\* sweepSpikeNumber counts from 0 without gaps within a sweep, and the interval
\* of a record that is not the first of its sweep is taken against the record
\* before it, which is of the same sweep.
C28_NumberingAndGrouping ==
  Completed =>
    \A k \in 1..Len(spikeDict) :
      LET r == spikeDict[k]
      IN  /\ r.spikeNumber = k - 1
          /\ r.sweep \in 0..(numSweeps - 1)
          /\ k > 1 => spikeDict[k - 1].sweep <= r.sweep
          /\ IF FirstOfSweep(k)
               THEN r.sweepSpikeNumber = 0 /\ r.isi_pnts = NaN
               ELSE /\ r.sweepSpikeNumber = spikeDict[k - 1].sweepSpikeNumber + 1
                    /\ r.isi_pnts = Some(r.thresholdPnt - spikeDict[k - 1].thresholdPnt)

\* a completed run over two sweeps with at least two records in each
C28_TwoSweepsOfSpikes ==
  /\ Completed
  /\ \E j, k \in 1..Len(spikeDict) :
       /\ j + 1 < k
       /\ spikeDict[j].sweep = 0 /\ spikeDict[j + 1].sweep = 0
       /\ spikeDict[k].sweep = 1 /\ spikeDict[k - 1].sweep = 1


\* the last call was getSpikeClips on a collection with records
WindowReturned ==
  ret # None /\ ret[1].call[1] = "getSpikeClips" /\ ~ret[1].value.none

\* the onset time of record r lies in [theMin, theMax] of the last call; the
\* whole recording when a bound is None
OnsetInWindow(r) ==
  IF ret[1].call[4] = None \/ ret[1].call[5] = None
    THEN r.thresholdPnt \in 0..(Len(sweepY[1]) - 1)
    ELSE /\ r.thresholdPnt >= ret[1].call[4][1] * dataPointsPerMs
         /\ r.thresholdPnt <= ret[1].call[5][1] * dataPointsPerMs

\* C29: getSpikeClips(theMin, theMax) returns exactly the clips of the selected
\* spikes whose onset time lies in [theMin, theMax], each clip tested against
\* the onset of its own spike.
C29_ClipsOfSpikesInWindow ==
  WindowReturned =>
    LET own == SelectSeq(SelectSeq(ClipSelected, FullWindow), OnsetInWindow)
        clips == ret[1].value.clips
    IN  /\ ret[1].value.exc = ""
        /\ Len(clips) = Len(own)
        /\ \A k \in 1..Len(own) :
             k <= Len(clips) =>
               clips[k] = SubSeq(sweepY[own[k].sweep + 1],
                                 own[k].thresholdPnt - ClipHalf + 1,
                                 own[k].thresholdPnt + ClipHalf)


\* the step is a call of _saveToHdf
SaveStep == ret' # ret /\ ret' # None /\ ret'[1].call[1] = "_saveToHdf"

\* C30: the flag is False after construction, True once a detection run has
\* completed (also with zero spikes) and False after a save that wrote;
\* _saveToHdf writes and returns True exactly when the flag is True, and a
\* second save without a detection in between writes nothing and returns False.
C30_DirtyFlagFollowsOperations ==
  /\ [](calls = 0 => ~detectionDirty)
  /\ [][/\ Len(history') > Len(history) => detectionDirty'
        /\ SaveStep =>
             /\ ret'[1].value.didSave = detectionDirty
             /\ ~detectionDirty'
             /\ IF detectionDirty THEN hdfStore' = Some(SavedObject)
                ELSE hdfStore' = hdfStore
             /\ SaveCount > 0 => (~ret'[1].value.didSave /\ hdfStore' = hdfStore)
        /\ ~SaveStep => (detectionDirty' # detectionDirty => (detectionDirty' /\ pc = "spike"))
       ]_vars

\* a detection run that found no spike has been saved, and a second save
\* followed without a detection in between
C30_SavedTwiceAfterEmptyRun ==
  /\ Completed
  /\ spikeDict = <<>>
  /\ ret # None /\ ret[1].call[1] = "_saveToHdf"
  /\ ret[1].value.n = 2
  /\ ~ret[1].value.didSave
  /\ hdfStore # None
  /\ ~detectionDirty

=============================================================================
